---- MODULE Spec2Model ----
(***************************************************************************)
(* Model of src/distributions/uniform.rs (rand): the integer and Duration  *)
(* back-ends of the Uniform distribution.                                  *)
(*                                                                         *)
(* Integer types are modelled with scaled-down widths (W8, W16, W32 and    *)
(* W64 bits stand for the 8-, 16-, 32- and 64-bit types) so that every     *)
(* pair of bounds and every raw draw can be enumerated.  All arithmetic    *)
(* keeps the width of the type it is done in (wrapping, casts, widening    *)
(* multiply, sign extension).  A Duration is a pair (secs: u64, nanos)     *)
(* with NANOS_PER_SEC scaled down likewise.                                *)
(***************************************************************************)
EXTENDS Integers, FiniteSets, Sequences, TLC

\* ------------------------------------------------------------------ bounds
\* Model widths of the 8-, 16-, 32- and 64-bit integer types.
W8 == 1
W16 == 2
W32 == 3
W64 == 4
\* Model value of the number of nanoseconds per second (1_000_000_000 in the
\* source); it fits the model's u32 as the real one fits the real u32.
NANOS_PER_SEC == 3
\* Largest number of raw draws one sample call may consume in the model.
MaxDraws == 2
\* Largest whole-second part of the low bound of a Duration range tried.
MaxLowSecs == 1
\* Model float formats: explicit mantissa bits (23 and 52 in the source's
\* f32 and f64) and exponent bias (127 and 1023).
F32Mant == 2
F32Bias == 2
F64Mant == 2
F64Bias == 3

\* ------------------------------------------------------- integer types
\* The instantiations of uniform_int_impl!: $ty with its width, signedness
\* and the width of $u_large (the raw draw).
IntTypes == {"i8", "i16", "i32", "i64", "u8", "u16", "u32", "u64"}

Bits(t) ==
    CASE t \in {"i8", "u8"} -> W8
      [] t \in {"i16", "u16"} -> W16
      [] t \in {"i32", "u32"} -> W32
      [] t \in {"i64", "u64"} -> W64

IsSigned(t) == t \in {"i8", "i16", "i32", "i64"}

\* Width of $u_large / $i_large: u32 for the 8/16/32-bit types, u64 for 64.
LargeBits(t) ==
    CASE t \in {"i8", "u8", "i16", "u16", "i32", "u32"} -> W32
      [] t \in {"i64", "u64"} -> W64

\* ::core::$unsigned::MAX and ::core::$u_large::MAX
UnsignedMax(t) == 2^Bits(t) - 1
LargeMax(t) == 2^LargeBits(t) - 1
\* ::core::u16::MAX
U16Max == 2^W16 - 1

TyMin(t) == IF IsSigned(t) THEN 0 - 2^(Bits(t) - 1) ELSE 0
TyMax(t) == IF IsSigned(t) THEN 2^(Bits(t) - 1) - 1 ELSE 2^Bits(t) - 1
Values(t) == TyMin(t)..TyMax(t)

\* ------------------------------------------------------- casts, wrapping
\* `x as uN`: the low `bits` bits of x as an unsigned number.
AsUnsigned(x, bits) == x % (2^bits)
\* `u as iN` for an unsigned bit pattern u of width bits (two's complement).
AsSigned(u, bits) == IF u >= 2^(bits - 1) THEN u - 2^bits ELSE u
\* `x as $ty`
Cast(x, t) ==
    IF IsSigned(t) THEN AsSigned(AsUnsigned(x, Bits(t)), Bits(t))
    ELSE AsUnsigned(x, Bits(t))

wrapping_sub(t, a, b) == Cast(a - b, t)
wrapping_add(t, a, b) == Cast(a + b, t)

\* `z as $signed as $i_large as $u_large` for a stored $ty value z.
SignExtend(z, t) ==
    AsUnsigned(AsSigned(AsUnsigned(z, Bits(t)), Bits(t)), LargeBits(t))

\* WideningMultiply::wmul on $u_large: (hi, lo) of the double-width product.
wmul(v, range, t) ==
    [hi |-> (v * range) \div (2^LargeBits(t)),
     lo |-> (v * range) % (2^LargeBits(t))]

RECURSIVE BitLen(_)
BitLen(x) == IF x = 0 THEN 0 ELSE 1 + BitLen(x \div 2)
\* $u_large::leading_zeros
leading_zeros(x, t) == LargeBits(t) - BitLen(x)
\* `x << n` on $u_large
Shl(x, n, t) == (x * 2^n) % (2^LargeBits(t))

\* ------------------------------------------------------- UniformInt
\* The outcome of a failed assert!, the absence of a stored sampler, and
\* the absence of a returned value (ret is the set of returned values of the
\* last call: empty or a singleton).
Panic == [panic |-> TRUE]
NoSampler == [none |-> TRUE]
NoValue == {}

\* Mutant of NewInclusiveState: the range is high - low, without the `+ 1`
\* that counts the upper bound in.
NewInclusiveState_HalfOpen(t, low, high) ==
    LET unsigned_max == UnsignedMax(t)
        range == AsUnsigned(wrapping_sub(t, high, low), Bits(t))
        ints_to_reject ==
            IF range > 0 THEN (unsigned_max - range + 1) % range ELSE 0
        zone == unsigned_max - ints_to_reject
    IN  [low |-> low, range |-> Cast(range, t), zone |-> Cast(zone, t)]

\* Mutant of NewInclusiveState: no draw is ever rejected (zone is the
\* unsigned maximum whatever the range).
NewInclusiveState_NoReject(t, low, high) ==
    LET range == AsUnsigned(wrapping_add(t, wrapping_sub(t, high, low), 1),
                            Bits(t))
    IN  [low |-> low, range |-> Cast(range, t),
         zone |-> Cast(UnsignedMax(t), t)]

\* Mutant of NewInclusiveState: the range is computed with a saturating
\* instead of a wrapping add.
NewInclusiveState_Saturating(t, low, high) ==
    LET unsigned_max == UnsignedMax(t)
        diff == AsUnsigned(wrapping_sub(t, high, low), Bits(t))
        range == IF diff = unsigned_max THEN unsigned_max ELSE diff + 1
        ints_to_reject == (unsigned_max - range + 1) % range
        zone == unsigned_max - ints_to_reject
    IN  [low |-> low, range |-> Cast(range, t), zone |-> Cast(zone, t)]

\* Mutant of NewInclusiveState: the draws to reject are counted as
\* unsigned_max % range (the remainder of MAX instead of that of 2^bits).
NewInclusiveState_ModMax(t, low, high) ==
    LET unsigned_max == UnsignedMax(t)
        range == AsUnsigned(wrapping_add(t, wrapping_sub(t, high, low), 1),
                            Bits(t))
        ints_to_reject == IF range > 0 THEN unsigned_max % range ELSE 0
        zone == unsigned_max - ints_to_reject
    IN  [low |-> low, range |-> Cast(range, t), zone |-> Cast(zone, t)]

\* UniformInt::new_inclusive (after its assert).
NewInclusiveState(t, low, high) ==
    LET unsigned_max == UnsignedMax(t)
        range == AsUnsigned(wrapping_add(t, wrapping_sub(t, high, low), 1),
                            Bits(t))
        ints_to_reject ==
            IF range > 0 THEN (unsigned_max - range + 1) % range ELSE 0
        zone == unsigned_max - ints_to_reject
    IN  [low |-> low, range |-> Cast(range, t), zone |-> Cast(zone, t)]

\* Mutant of UniformInt_new_inclusive: the assert is strict.
UniformInt_new_inclusive_Strict(t, low, high) ==
    IF low < high THEN NewInclusiveState(t, low, high) ELSE Panic

UniformInt_new_inclusive(t, low, high) ==
    IF low <= high THEN NewInclusiveState(t, low, high) ELSE Panic

\* Mutant of UniformInt_new: high is passed on without taking its
\* predecessor.
UniformInt_new_NoPredecessor(t, low, high) ==
    IF ~(low < high) THEN Panic
    ELSE UniformInt_new_inclusive(t, low, high)

\* UniformInt::new: assert, then new_inclusive(low, high - 1); `high - 1` is
\* an overflow-checked subtraction in $ty.
UniformInt_new(t, low, high) ==
    IF ~(low < high) THEN Panic
    ELSE IF high - 1 < TyMin(t) THEN Panic
    ELSE UniformInt_new_inclusive(t, low, high - 1)

\* `self.range as $unsigned as $u_large` in sample.
SampleRange(t, s) == AsUnsigned(s.range, Bits(t))
\* `self.zone as $signed as $i_large as $u_large` in sample.
SampleZone(t, s) == SignExtend(s.zone, t)

\* Standard's sampling of a whole $ty value (rng.gen()) from a raw draw of
\* the width of $ty.
Standard_gen(t, raw) == Cast(raw, t)

\* The raw draws one iteration of sample can see.
SampleDraws(t, s) ==
    IF SampleRange(t, s) > 0 THEN 0..LargeMax(t) ELSE 0..UnsignedMax(t)

\* One iteration of UniformInt::sample on the raw draw v.
SampleAccepts(t, s, v) ==
    IF SampleRange(t, s) > 0
    THEN wmul(v, SampleRange(t, s), t).lo <= SampleZone(t, s)
    ELSE TRUE

\* Mutant of SampleValue: the low word of the product is used instead of the
\* high word.
SampleValue_LowWord(t, s, v) ==
    IF SampleRange(t, s) > 0
    THEN wrapping_add(t, s.low, Cast(wmul(v, SampleRange(t, s), t).lo, t))
    ELSE Standard_gen(t, v)

SampleValue(t, s, v) ==
    IF SampleRange(t, s) > 0
    THEN wrapping_add(t, s.low, Cast(wmul(v, SampleRange(t, s), t).hi, t))
    ELSE Standard_gen(t, v)

\* UniformInt::sample_single: range and zone recomputed from the bounds.
SingleRange(t, low, high) ==
    AsUnsigned(wrapping_sub(t, high, low), Bits(t))

\* Mutant of SingleZone: the fast approximation is used for every type, the
\* 8- and 16-bit ones included.
SingleZone_ApproxNarrow(t, low, high) ==
    LET range == SingleRange(t, low, high)
    IN  Shl(range, leading_zeros(range, t), t)

\* Mutant of SingleZone: the approximate zone is not shifted left.
SingleZone_NoShift(t, low, high) ==
    LET range == SingleRange(t, low, high)
    IN  IF UnsignedMax(t) <= U16Max
        THEN LET unsigned_max == LargeMax(t)
                 ints_to_reject == (unsigned_max - range + 1) % range
             IN  unsigned_max - ints_to_reject
        ELSE range

SingleZone(t, low, high) ==
    LET range == SingleRange(t, low, high)
    IN  IF UnsignedMax(t) <= U16Max
        THEN LET unsigned_max == LargeMax(t)
                 ints_to_reject == (unsigned_max - range + 1) % range
             IN  unsigned_max - ints_to_reject
        ELSE Shl(range, leading_zeros(range, t), t)

SingleAccepts(t, low, high, v) ==
    wmul(v, SingleRange(t, low, high), t).lo <= SingleZone(t, low, high)

\* Mutant of SingleValue: the high word is returned without the low bound
\* added.
SingleValue_NoOffset(t, low, high, v) ==
    Cast(wmul(v, SingleRange(t, low, high), t).hi, t)

\* Mutant of SingleValue: the high word is added without wrapping.
SingleValue_NoWrap(t, low, high, v) ==
    low + Cast(wmul(v, SingleRange(t, low, high), t).hi, t)

SingleValue(t, low, high, v) ==
    wrapping_add(t, low, Cast(wmul(v, SingleRange(t, low, high), t).hi, t))

\* The raw draws a stored UniformInt accepts, and the values its sample can
\* return (the value of the first accepted draw).
AcceptedDraws(t, s) == {d \in SampleDraws(t, s) : SampleAccepts(t, s, d)}
SampleValues(t, s) == {SampleValue(t, s, d) : d \in AcceptedDraws(t, s)}

\* ------------------------------------------------------- std Duration
\* std::time::Duration as used by the back-end: (secs: u64, nanos: u32) with
\* nanos < NANOS_PER_SEC.
U64Max == 2^W64 - 1
Durations == [secs : 0..U64Max, nanos : 0..(NANOS_PER_SEC - 1)]
\* The low bounds tried.
LowDurations == [secs : 0..MaxLowSecs, nanos : 0..(NANOS_PER_SEC - 1)]

\* Duration::new(secs, nanos): carries whole seconds out of nanos; panics
\* when the seconds overflow u64.
Duration_new(secs, nanos) ==
    IF secs + (nanos \div NANOS_PER_SEC) > U64Max THEN Panic
    ELSE [secs |-> secs + (nanos \div NANOS_PER_SEC),
          nanos |-> nanos % NANOS_PER_SEC]

\* The derived ordering of Duration (secs, then nanos).
DurLt(a, b) == a.secs < b.secs \/ (a.secs = b.secs /\ a.nanos < b.nanos)
DurLe(a, b) == a.secs < b.secs \/ (a.secs = b.secs /\ a.nanos <= b.nanos)

\* `a - b` on Durations: panics on underflow.
DurSub(a, b) ==
    IF DurLt(a, b) THEN Panic
    ELSE IF a.nanos >= b.nanos
         THEN [secs |-> a.secs - b.secs, nanos |-> a.nanos - b.nanos]
         ELSE [secs |-> a.secs - b.secs - 1,
               nanos |-> a.nanos + NANOS_PER_SEC - b.nanos]

\* `a + b` on Durations: panics on overflow.
DurAdd(a, b) ==
    LET n == a.nanos + b.nanos
        carry == IF n >= NANOS_PER_SEC THEN 1 ELSE 0
    IN  IF a.secs + b.secs + carry > U64Max THEN Panic
        ELSE [secs |-> a.secs + b.secs + carry,
              nanos |-> n - carry * NANOS_PER_SEC]

\* ------------------------------------------------------- UniformDuration
\* size.as_secs().checked_mul(1_000_000_000)
\*     .and_then(|n| n.checked_add(size.subsec_nanos() as u64))
\* as a set: empty for None, {n} for Some(n).
\* Mutant of CheckedNanos: the sub-second part is added with a wrapping
\* instead of a checked add.
CheckedNanos_WrappingAdd(size) ==
    IF size.secs * NANOS_PER_SEC > U64Max THEN {}
    ELSE {AsUnsigned(size.secs * NANOS_PER_SEC + size.nanos, W64)}

CheckedNanos(size) ==
    IF size.secs * NANOS_PER_SEC > U64Max THEN {}
    ELSE IF size.secs * NANOS_PER_SEC + size.nanos > U64Max THEN {}
    ELSE {size.secs * NANOS_PER_SEC + size.nanos}

\* The mode chosen by UniformDuration::new_inclusive for a span.
DurationMode(size) ==
    IF CheckedNanos(size) # {}
    THEN [kind |-> "Small",
          nanos |-> UniformInt_new_inclusive("u64", 0,
                        CHOOSE n \in CheckedNanos(size) : TRUE)]
    ELSE [kind |-> "Large",
          size |-> size,
          secs |-> UniformInt_new_inclusive("u64", 0, size.secs)]

UniformDuration_new_inclusive(low, high) ==
    IF ~DurLe(low, high) THEN Panic
    ELSE IF DurSub(high, low) = Panic THEN Panic
    ELSE [offset |-> low, mode |-> DurationMode(DurSub(high, low))]

\* Mutant of UniformDuration_new: high is passed on without subtracting a
\* nanosecond.
UniformDuration_new_NoPredecessor(low, high) ==
    IF ~DurLt(low, high) THEN Panic
    ELSE UniformDuration_new_inclusive(low, high)

\* UniformDuration::new: assert, then new_inclusive(low, high - 1ns).
UniformDuration_new(low, high) ==
    IF ~DurLt(low, high) THEN Panic
    ELSE IF DurSub(high, Duration_new(0, 1)) = Panic THEN Panic
    ELSE UniformDuration_new_inclusive(low, DurSub(high, Duration_new(0, 1)))

\* `Uniform::new(0, 1_000_000_000)` in sample (a UniformInt<u32>).
nano_range == UniformInt_new("u32", 0, NANOS_PER_SEC)

\* Mutant of LargeAccepts: the comparison with size is strict.
LargeAccepts_Strict(size, secs, nanos) ==
    DurLt(Duration_new(secs, nanos), size)

\* Mutant of LargeAccepts: only the whole seconds are compared.
LargeAccepts_SecsOnly(size, secs, nanos) ==
    Duration_new(secs, nanos).secs <= size.secs

\* The condition `d <= size` of the Large loop for the drawn pair.
LargeAccepts(size, secs, nanos) == DurLe(Duration_new(secs, nanos), size)

\* Mutant of DurationDraw: in Small mode the sub-second remainder of the
\* sampled count is dropped.
DurationDraw_WholeSecs(s, n1, n2) ==
    IF s.mode.kind = "Small"
    THEN Duration_new(n1 \div NANOS_PER_SEC, 0)
    ELSE Duration_new(n1, n2)

\* The span d of one iteration of UniformDuration::sample, from the values
\* the inner samplers returned: n1 from `nanos` (Small) or `secs` (Large),
\* n2 from nano_range (Large only).
DurationDraw(s, n1, n2) ==
    IF s.mode.kind = "Small"
    THEN Duration_new(n1 \div NANOS_PER_SEC,
                      Cast(n1 % NANOS_PER_SEC, "u32"))
    ELSE Duration_new(n1, n2)

DurationAccepts(s, n1, n2) ==
    IF s.mode.kind = "Small" THEN TRUE
    ELSE LargeAccepts(s.mode.size, n1, n2)

\* `self.offset + d`
DurationValue(s, n1, n2) == DurAdd(s.offset, DurationDraw(s, n1, n2))

\* ------------------------------------------------------- floats
\* The instantiations of uniform_float_impl!: f32 (raw draw u32) and f64
\* (raw draw u64).  A float format has Mant(t) explicit mantissa bits and
\* the exponent range 1 - Bias(t) .. Bias(t), with subnormals, infinities
\* and NaN as in IEEE 754.  A finite float is held as a whole number of
\* units, one unit being the smallest positive subnormal; the sign of zero
\* is not held (no comparison of the code tells -0.0 from 0.0).
FloatTypes == {"f32", "f64"}
Mant(t) == IF t = "f32" THEN F32Mant ELSE F64Mant
Bias(t) == IF t = "f32" THEN F32Bias ELSE F64Bias
\* Width of $uty, the raw draw.
DrawBits(t) == IF t = "f32" THEN W32 ELSE W64
\* $bits_to_discard: `32 - 23` and `64 - 52`.
bits_to_discard(t) == DrawBits(t) - Mant(t)

Fin(n) == [cls |-> "finite", n |-> n]
PosInf == [cls |-> "inf", n |-> 1]
NegInf == [cls |-> "inf", n |-> 0 - 1]
NaN == [cls |-> "nan", n |-> 0]

\* 1.0 and $f_scalar::MAX in units.
One(t) == 2^(Mant(t) + Bias(t) - 1)
MaxFinite(t) == (2^(Mant(t) + 1) - 1) * 2^(2 * Bias(t) - 1)

\* The magnitudes of the finite floats, and the floats.
FiniteMagnitudes(t) ==
    {m * 2^e : m \in 0..(2^(Mant(t) + 1) - 1), e \in 0..(2 * Bias(t) - 1)}
FiniteFloats(t) ==
    {Fin(n) : n \in FiniteMagnitudes(t)}
        \cup {Fin(0 - n) : n \in FiniteMagnitudes(t)}
Floats(t) == FiniteFloats(t) \cup {PosInf, NegInf, NaN}

Abs(x) == IF x < 0 THEN 0 - x ELSE x
Sign(x) == IF x < 0 THEN 0 - 1 ELSE 1

\* The distance between neighbouring floats at the magnitude a (in units).
Spacing(t, a) ==
    IF BitLen(a) > Mant(t) + 1 THEN 2^(BitLen(a) - (Mant(t) + 1)) ELSE 1

\* The float nearest to num / den units (den > 0), ties to the even
\* mantissa, overflowing to an infinity: the rounding of every operation.
Round(t, num, den) ==
    LET a == Abs(num)
        q == den * Spacing(t, a \div den)
        f == a \div q
        r == a % q
        up == IF 2 * r > q \/ (2 * r = q /\ f % 2 = 1) THEN 1 ELSE 0
        mag == (f + up) * (q \div den)
    IN  IF mag > MaxFinite(t)
        THEN (IF num < 0 THEN NegInf ELSE PosInf)
        ELSE Fin(Sign(num) * mag)

IsNaN(a) == a.cls = "nan"
is_finite(a) == a.cls = "finite"
FNeg(a) == [a EXCEPT !.n = 0 - a.n]

\* `a + b`, `a - b`, `a * b`, `a / b` on floats.
FAdd(t, a, b) ==
    IF IsNaN(a) \/ IsNaN(b) THEN NaN
    ELSE IF a.cls = "inf" /\ b.cls = "inf"
         THEN (IF a.n = b.n THEN a ELSE NaN)
    ELSE IF a.cls = "inf" THEN a
    ELSE IF b.cls = "inf" THEN b
    ELSE Round(t, a.n + b.n, 1)

FSub(t, a, b) == FAdd(t, a, FNeg(b))

FMul(t, a, b) ==
    IF IsNaN(a) \/ IsNaN(b) THEN NaN
    ELSE IF a.cls = "inf" \/ b.cls = "inf"
         THEN (IF a.n = 0 \/ b.n = 0 THEN NaN
               ELSE IF Sign(a.n) = Sign(b.n) THEN PosInf ELSE NegInf)
    ELSE Round(t, a.n * b.n, One(t))

FDiv(t, a, b) ==
    IF IsNaN(a) \/ IsNaN(b) THEN NaN
    ELSE IF a.cls = "inf"
         THEN (IF b.cls = "inf" THEN NaN
               ELSE IF Sign(a.n) = Sign(b.n) THEN PosInf ELSE NegInf)
    ELSE IF b.cls = "inf" THEN Fin(0)
    ELSE IF b.n = 0
         THEN (IF a.n = 0 THEN NaN ELSE IF a.n > 0 THEN PosInf ELSE NegInf)
    ELSE Round(t, Sign(b.n) * a.n * One(t), Abs(b.n))

\* The place of a non-NaN float in the order of the extended reals.
Rank(t, a) == IF a.cls = "inf" THEN a.n * (MaxFinite(t) + 1) ELSE a.n

\* FloatSIMDUtils on a scalar: `<`, `<=`, `>=`, `>` (false on a NaN) and
\* is_finite.
all_lt(t, a, b) == ~IsNaN(a) /\ ~IsNaN(b) /\ Rank(t, a) < Rank(t, b)
all_le(t, a, b) == ~IsNaN(a) /\ ~IsNaN(b) /\ Rank(t, a) <= Rank(t, b)
ge_mask(t, a, b) == all_le(t, b, a)
gt_mask(t, a, b) == all_lt(t, b, a)
all_finite(a) == is_finite(a)
finite_mask(a) == is_finite(a)

\* The largest float magnitude below the magnitude a > 0 (in units).
PredMagnitude(t, a) ==
    IF a = 2^(BitLen(a) - 1) THEN a - Spacing(t, a - 1) ELSE a - Spacing(t, a)

\* FloatSIMDUtils::decrease_masked on a scalar: from_bits(to_bits() - 1).
\* The bit pattern of a positive float less one is the next float towards
\* zero, that of +infinity is MAX, that of zero has no predecessor (the
\* subtraction wraps to a NaN pattern); a negative float moves towards zero
\* likewise.
decrease_masked(t, a) ==
    IF IsNaN(a) THEN NaN
    ELSE IF a.cls = "inf" THEN Fin(a.n * MaxFinite(t))
    ELSE IF a.n = 0 THEN NaN
    ELSE Fin(Sign(a.n) * PredMagnitude(t, Abs(a.n)))

\* IntoFloat::into_float_with_exponent(0) of mantissa bits k: 1 + k / 2^Mant.
into_float_with_exponent(t, k) == Fin(One(t) + k * (One(t) \div 2^Mant(t)))

\* `d >> $bits_to_discard` for a raw draw d, and the values it takes over
\* the raw draws `rng.gen::<$uty>()`.
shifted(t, d) == d \div 2^bits_to_discard(t)
ShiftedDraws(t) == {shifted(t, d) : d \in 0..(2^DrawBits(t) - 1)}

\* `k.into_float_with_exponent(0) - 1.0` for the shifted draw k: a fraction
\* in [0, 1).
value0_1(t, k) == FSub(t, into_float_with_exponent(t, k), Fin(One(t)))

\* `($u_scalar::MAX >> $bits_to_discard).into_float_with_exponent(0) - 1.0`
max_rand(t) == value0_1(t, shifted(t, 2^DrawBits(t) - 1))

\* ------------------------------------------------------- UniformFloat
\* Mutant of new_scale: the scale is stored as first computed, without the
\* correction loop.
new_scale_NoCorrection(t, low, high, scale) == scale

\* The loop of UniformFloat::new: scale is decreased until the largest
\* fraction maps below high.
RECURSIVE new_scale(_, _, _, _)
new_scale(t, low, high, scale) ==
    IF ge_mask(t, FAdd(t, FMul(t, scale, max_rand(t)), low), high)
    THEN new_scale(t, low, high, decrease_masked(t, scale))
    ELSE scale

\* The loop of UniformFloat::new_inclusive: scale is decreased until the
\* largest fraction maps to high or below.
RECURSIVE new_inclusive_scale(_, _, _, _)
new_inclusive_scale(t, low, high, scale) ==
    IF gt_mask(t, FAdd(t, FMul(t, scale, max_rand(t)), low), high)
    THEN new_inclusive_scale(t, low, high, decrease_masked(t, scale))
    ELSE scale

\* Mutant of UniformFloat_new: the bounds are not checked for finiteness.
UniformFloat_new_NoFiniteCheck(t, low, high) ==
    IF ~all_lt(t, low, high) THEN Panic
    ELSE LET scale == new_scale(t, low, high, FSub(t, high, low))
         IN  IF ~all_le(t, Fin(0), scale) THEN Panic
             ELSE [low |-> low, scale |-> scale]

\* UniformFloat::new: the two asserts, the loop, and the debug_assert on
\* the sign of scale.
UniformFloat_new(t, low, high) ==
    IF ~all_lt(t, low, high) THEN Panic
    ELSE IF ~(all_finite(low) /\ all_finite(high)) THEN Panic
    ELSE LET scale == new_scale(t, low, high, FSub(t, high, low))
         IN  IF ~all_le(t, Fin(0), scale) THEN Panic
             ELSE [low |-> low, scale |-> scale]

UniformFloat_new_inclusive(t, low, high) ==
    IF ~all_le(t, low, high) THEN Panic
    ELSE IF ~(all_finite(low) /\ all_finite(high)) THEN Panic
    ELSE LET scale == new_inclusive_scale(t, low, high,
                          FDiv(t, FSub(t, high, low), max_rand(t)))
         IN  IF ~all_le(t, Fin(0), scale) THEN Panic
             ELSE [low |-> low, scale |-> scale]

\* Mutant of FloatSampleValue: the value in [1, 2) is used without
\* subtracting 1.0.
FloatSampleValue_From1_2(t, s, k) ==
    FAdd(t, FMul(t, into_float_with_exponent(t, k), s.scale), s.low)

\* UniformFloat::sample on the shifted draw k:
\* value0_1 * self.scale + self.low
FloatSampleValue(t, s, k) ==
    FAdd(t, FMul(t, value0_1(t, k), s.scale), s.low)

\* `res` of one iteration of UniformFloat::sample_single.
SingleRes(t, low, scale, k) ==
    FAdd(t, FMul(t, value0_1(t, k), scale), low)

\* ------------------------------------------------------- Uniform
\* Uniform::new / Uniform::new_inclusive: the constructor c of X::Sampler for
\* the type t, applied to the bounds l, h.
ConstructedBy(t, c, l, h) ==
    IF t = "Duration"
    THEN IF c = "new" THEN UniformDuration_new(l, h)
         ELSE UniformDuration_new_inclusive(l, h)
    ELSE IF t \in FloatTypes
    THEN IF c = "new" THEN UniformFloat_new(t, l, h)
         ELSE UniformFloat_new_inclusive(t, l, h)
    ELSE IF c = "new" THEN UniformInt_new(t, l, h)
         ELSE UniformInt_new_inclusive(t, l, h)

\* ------------------------------------------------------- state
Types == IntTypes \cup {"Duration"}
ZeroOf(t) ==
    IF t = "Duration" THEN [secs |-> 0, nanos |-> 0]
    ELSE IF t \in FloatTypes THEN Fin(0)
    ELSE 0

VARIABLES
    ty,       \* the type X of Uniform<X>: an integer type or Duration
    pc,       \* "idle", "ready", "loop", "done", "single_loop",
              \* "single_done", "panicked"
    ctor,     \* "none", "new", "new_inclusive", "sample_single"
    low,      \* the low bound passed in
    high,     \* the high bound passed in
    sampler,  \* the stored back-end state, or NoSampler
    v,        \* the last raw draw consumed (integers), the same after
              \* `>> $bits_to_discard` (floats); the pair of values the inner
              \* samplers returned in the last iteration (Duration)
    draws,    \* iterations of the rejection loop run by the current call
    ret,      \* {the value returned by the last call}, or NoValue
    scale,    \* the local `scale` of a running float sample_single, or
              \* NoValue
    passing   \* how low and high were handed to the constructor: each by
              \* "value" or by "reference"

vars == <<ty, pc, ctor, low, high, sampler, v, draws, ret, scale, passing>>

\* ------------------------------------------------------- SampleBorrow
PassingModes == {"value", "reference"}
\* The argument a caller passes for the bound x: x itself (B = X) or `&x`
\* (B = &X).
Argument(mode, x) ==
    IF mode = "value" THEN [owned |-> x] ELSE [referent |-> x]

\* Mutant of borrow: the impl for references yields a default value instead
\* of the referent.
borrow_Default(t, b) ==
    IF "owned" \in DOMAIN b THEN b.owned ELSE ZeroOf(t)

\* `*b.borrow()` in a constructor of the type t: SampleBorrow::borrow is
\* `self` for B = X and `*self` for B = &X, both a reference to the value.
borrow(t, b) ==
    IF "owned" \in DOMAIN b THEN b.owned ELSE b.referent

Init ==
    /\ ty \in Types
    /\ pc = "idle"
    /\ ctor = "none"
    /\ low = ZeroOf(ty)
    /\ high = ZeroOf(ty)
    /\ sampler = NoSampler
    /\ v = 0
    /\ draws = 0
    /\ ret = NoValue
    /\ scale = NoValue
    /\ passing = <<"value", "value">>

\* Uniform::new(l, h) for an integer $ty
New(l, h) ==
    /\ pc = "idle"
    /\ ctor' = "new"
    /\ low' = l
    /\ high' = h
    /\ IF UniformInt_new(ty, l, h) = Panic
       THEN /\ pc' = "panicked"
            /\ sampler' = NoSampler
       ELSE /\ pc' = "ready"
            /\ sampler' = UniformInt_new(ty, l, h)
    /\ UNCHANGED <<ty, v, draws, ret, scale, passing>>

\* Uniform::new_inclusive(l, h) for an integer $ty
NewInclusive(l, h) ==
    /\ pc = "idle"
    /\ ctor' = "new_inclusive"
    /\ low' = l
    /\ high' = h
    /\ IF UniformInt_new_inclusive(ty, l, h) = Panic
       THEN /\ pc' = "panicked"
            /\ sampler' = NoSampler
       ELSE /\ pc' = "ready"
            /\ sampler' = UniformInt_new_inclusive(ty, l, h)
    /\ UNCHANGED <<ty, v, draws, ret, scale, passing>>

\* Mutant of Sample: the first raw draw is used whether or not its low word
\* is within the zone (no rejection loop).
Sample_NoRejection(d) ==
    /\ pc \in {"ready", "loop"}
    /\ d \in SampleDraws(ty, sampler)
    /\ v' = d
    /\ draws' = draws + 1
    /\ pc' = "done"
    /\ ret' = {SampleValue(ty, sampler, d)}
    /\ UNCHANGED <<ty, ctor, low, high, sampler, scale, passing>>

\* Mutant of Sample: an accepted draw moves the stored low bound to the value
\* returned (a sampler that advances like a cursor).
Sample_Advancing(d) ==
    /\ pc \in {"ready", "loop"}
    /\ d \in SampleDraws(ty, sampler)
    /\ v' = d
    /\ draws' = draws + 1
    /\ IF SampleAccepts(ty, sampler, d)
       THEN /\ pc' = "done"
            /\ ret' = {SampleValue(ty, sampler, d)}
            /\ sampler' = [sampler EXCEPT !.low = SampleValue(ty, sampler, d)]
       ELSE /\ draws' < MaxDraws
            /\ pc' = "loop"
            /\ ret' = NoValue
            /\ sampler' = sampler
    /\ UNCHANGED <<ty, ctor, low, high, scale, passing>>

\* One iteration of UniformInt::sample: the first of a call (from "ready")
\* or the next turn of the rejection loop (from "loop"), on the raw draw d.
Sample(d) ==
    /\ pc \in {"ready", "loop"}
    /\ d \in SampleDraws(ty, sampler)
    /\ v' = d
    /\ draws' = draws + 1
    /\ IF SampleAccepts(ty, sampler, d)
       THEN /\ pc' = "done"
            /\ ret' = {SampleValue(ty, sampler, d)}
       ELSE /\ draws' < MaxDraws
            /\ pc' = "loop"
            /\ ret' = NoValue
    /\ UNCHANGED <<ty, ctor, low, high, sampler, scale, passing>>

\* Entry of UniformInt::sample_single(l, h, rng): the assert.
SampleSingle(l, h) ==
    /\ pc = "idle"
    /\ ctor' = "sample_single"
    /\ low' = l
    /\ high' = h
    /\ pc' = IF l < h THEN "single_loop" ELSE "panicked"
    /\ UNCHANGED <<ty, sampler, v, draws, ret, scale, passing>>

\* One iteration of the loop of UniformInt::sample_single on the raw draw d.
SampleSingleDraw(d) ==
    /\ pc = "single_loop"
    /\ v' = d
    /\ draws' = draws + 1
    /\ IF SingleAccepts(ty, low, high, d)
       THEN /\ pc' = "single_done"
            /\ ret' = {SingleValue(ty, low, high, d)}
       ELSE /\ draws' < MaxDraws
            /\ pc' = "single_loop"
            /\ ret' = NoValue
    /\ UNCHANGED <<ty, ctor, low, high, sampler, scale, passing>>

\* Uniform::new(l, h) for Duration
DurationNew(l, h) ==
    /\ pc = "idle"
    /\ ctor' = "new"
    /\ low' = l
    /\ high' = h
    /\ IF UniformDuration_new(l, h) = Panic
       THEN /\ pc' = "panicked"
            /\ sampler' = NoSampler
       ELSE /\ pc' = "ready"
            /\ sampler' = UniformDuration_new(l, h)
    /\ UNCHANGED <<ty, v, draws, ret, scale, passing>>

\* Uniform::new_inclusive(l, h) for Duration
DurationNewInclusive(l, h) ==
    /\ pc = "idle"
    /\ ctor' = "new_inclusive"
    /\ low' = l
    /\ high' = h
    /\ IF UniformDuration_new_inclusive(l, h) = Panic
       THEN /\ pc' = "panicked"
            /\ sampler' = NoSampler
       ELSE /\ pc' = "ready"
            /\ sampler' = UniformDuration_new_inclusive(l, h)
    /\ UNCHANGED <<ty, v, draws, ret, scale, passing>>

\* The values the inner samplers of UniformDuration::sample can return in
\* one iteration: `nanos.sample(rng)` (Small) or `secs.sample(rng)` (Large),
\* and `nano_range.sample(rng)` (Large only; 0 stands for "not drawn").
InnerValues(s) ==
    SampleValues("u64", IF s.mode.kind = "Small" THEN s.mode.nanos
                        ELSE s.mode.secs)
NanoValues(s) ==
    IF s.mode.kind = "Small" THEN {0} ELSE SampleValues("u32", nano_range)

\* One iteration of UniformDuration::sample.  n1 is the value returned by
\* the inner `nanos` (Small) or `secs` (Large) sampler and n2 the value
\* returned by nano_range (Large only): each any value its sample can return.
DurationSample(n1, n2) ==
    /\ pc \in {"ready", "loop"}
    /\ v' = IF sampler.mode.kind = "Small" THEN <<n1>> ELSE <<n1, n2>>
    /\ draws' = draws + 1
    /\ IF DurationAccepts(sampler, n1, n2)
       THEN /\ pc' = "done"
            /\ ret' = {DurationValue(sampler, n1, n2)}
       ELSE /\ draws' < MaxDraws
            /\ pc' = "loop"
            /\ ret' = NoValue
    /\ UNCHANGED <<ty, ctor, low, high, sampler, scale, passing>>

\* Uniform::new(l, h) for a float $ty
FloatNew(l, h) ==
    /\ pc = "idle"
    /\ ctor' = "new"
    /\ low' = l
    /\ high' = h
    /\ IF UniformFloat_new(ty, l, h) = Panic
       THEN /\ pc' = "panicked"
            /\ sampler' = NoSampler
       ELSE /\ pc' = "ready"
            /\ sampler' = UniformFloat_new(ty, l, h)
    /\ UNCHANGED <<ty, v, draws, ret, scale, passing>>

\* Uniform::new_inclusive(l, h) for a float $ty
FloatNewInclusive(l, h) ==
    /\ pc = "idle"
    /\ ctor' = "new_inclusive"
    /\ low' = l
    /\ high' = h
    /\ IF UniformFloat_new_inclusive(ty, l, h) = Panic
       THEN /\ pc' = "panicked"
            /\ sampler' = NoSampler
       ELSE /\ pc' = "ready"
            /\ sampler' = UniformFloat_new_inclusive(ty, l, h)
    /\ UNCHANGED <<ty, v, draws, ret, scale, passing>>

\* UniformFloat::sample on the shifted raw draw k (no loop).
FloatSample(k) ==
    /\ pc = "ready"
    /\ v' = k
    /\ draws' = draws + 1
    /\ pc' = "done"
    /\ ret' = {FloatSampleValue(ty, sampler, k)}
    /\ UNCHANGED <<ty, ctor, low, high, sampler, scale, passing>>

\* Entry of UniformFloat::sample_single(l, h, rng): the assert and the first
\* value of scale.
FloatSampleSingle(l, h) ==
    /\ pc = "idle"
    /\ ctor' = "sample_single"
    /\ low' = l
    /\ high' = h
    /\ IF all_lt(ty, l, h)
       THEN /\ pc' = "single_loop"
            /\ scale' = FSub(ty, h, l)
       ELSE /\ pc' = "panicked"
            /\ scale' = NoValue
    /\ UNCHANGED <<ty, sampler, v, draws, ret, passing>>

\* One iteration of the loop of UniformFloat::sample_single on the shifted
\* raw draw k: the debug_assert, the return, and the handling of a
\* non-finite scale.
FloatSampleSingleDraw(k) ==
    /\ pc = "single_loop"
    /\ v' = k
    /\ draws' = draws + 1
    /\ LET res == SingleRes(ty, low, scale, k)
       IN  IF ~(all_le(ty, low, res) \/ ~all_finite(scale))
           THEN pc' = "panicked" /\ ret' = NoValue /\ scale' = NoValue
           ELSE IF all_lt(ty, res, high)
           THEN pc' = "single_done" /\ ret' = {res} /\ scale' = scale
           ELSE IF ~finite_mask(scale)
           THEN IF ~(all_finite(low) /\ all_finite(high))
                THEN pc' = "panicked" /\ ret' = NoValue /\ scale' = NoValue
                ELSE /\ draws' < MaxDraws
                     /\ pc' = "single_loop"
                     /\ ret' = NoValue
                     /\ scale' = decrease_masked(ty, scale)
           ELSE /\ draws' < MaxDraws
                /\ pc' = "single_loop"
                /\ ret' = NoValue
                /\ scale' = scale
    /\ UNCHANGED <<ty, ctor, low, high, sampler, passing>>

\* A constructor c called with bounds handed over by value or by reference
\* (`Uniform::new(&low, high)`): the constructor body reads both through
\* `*low_b.borrow()` / `*high_b.borrow()`; the caller keeps l and h.
ConstructBorrowed(c, bl, bh, l, h) ==
    /\ pc = "idle"
    /\ ctor' = c
    /\ low' = l
    /\ high' = h
    /\ passing' = <<bl, bh>>
    /\ LET s == ConstructedBy(ty, c, borrow(ty, Argument(bl, l)),
                              borrow(ty, Argument(bh, h)))
       IN  IF s = Panic
           THEN pc' = "panicked" /\ sampler' = NoSampler
           ELSE pc' = "ready" /\ sampler' = s
    /\ UNCHANGED <<ty, v, draws, ret, scale>>

\* The caller takes the value a sample call returned (the body of the loops
\* `for _ in 0..1000 { let v = rng.sample(my_uniform); ... }`); the sampler
\* is ready for the next call.
Take ==
    /\ pc = "done"
    /\ pc' = "ready"
    /\ v' = 0
    /\ draws' = 0
    /\ ret' = NoValue
    /\ UNCHANGED <<ty, ctor, low, high, sampler, scale, passing>>

Next ==
    \/ /\ ty \in IntTypes /\ pc = "idle"
       /\ \E l \in Values(ty), h \in Values(ty) : New(l, h)
    \/ /\ ty \in IntTypes /\ pc = "idle"
       /\ \E l \in Values(ty), h \in Values(ty) : NewInclusive(l, h)
    \/ /\ ty \in IntTypes /\ pc \in {"ready", "loop"}
       /\ \E d \in 0..LargeMax(ty) : Sample(d)
    \/ /\ ty \in IntTypes /\ pc = "idle"
       /\ \E l \in Values(ty), h \in Values(ty) : SampleSingle(l, h)
    \/ /\ ty \in IntTypes /\ pc = "single_loop"
       /\ \E d \in 0..LargeMax(ty) : SampleSingleDraw(d)
    \/ /\ ty = "Duration" /\ pc = "idle"
       /\ \E l \in LowDurations, h \in Durations : DurationNew(l, h)
    \/ /\ ty = "Duration" /\ pc = "idle"
       /\ \E l \in LowDurations, h \in Durations :
              DurationNewInclusive(l, h)
    \/ /\ ty = "Duration" /\ pc \in {"ready", "loop"}
       /\ \E n1 \in InnerValues(sampler) :
              \E n2 \in NanoValues(sampler) : DurationSample(n1, n2)
    \/ Take

Spec == Init /\ [][Next]_vars

\* The float back-end: the same variables, with ty a float type.
FloatInit ==
    /\ ty \in FloatTypes
    /\ pc = "idle"
    /\ ctor = "none"
    /\ low = ZeroOf(ty)
    /\ high = ZeroOf(ty)
    /\ sampler = NoSampler
    /\ v = 0
    /\ draws = 0
    /\ ret = NoValue
    /\ scale = NoValue
    /\ passing = <<"value", "value">>

FloatNext ==
    \/ /\ pc = "idle"
       /\ \E l \in Floats(ty), h \in Floats(ty) : FloatNew(l, h)
    \/ /\ pc = "idle"
       /\ \E l \in Floats(ty), h \in Floats(ty) : FloatNewInclusive(l, h)
    \/ /\ pc = "ready"
       /\ \E k \in ShiftedDraws(ty) : FloatSample(k)
    \/ /\ pc = "idle"
       /\ \E l \in Floats(ty), h \in Floats(ty) : FloatSampleSingle(l, h)
    \/ /\ pc = "single_loop"
       /\ \E k \in ShiftedDraws(ty) : FloatSampleSingleDraw(k)
    \/ Take

FloatSpec == FloatInit /\ [][FloatNext]_vars

\* Every back-end together.
FullInit == Init \/ FloatInit
FullNext ==
    \/ ty \in Types /\ Next
    \/ ty \in FloatTypes /\ FloatNext
FullSpec == FullInit /\ [][FullNext]_vars

\* The constructors of every back-end, with each bound handed over by value
\* or by reference.
Constructors == {"new", "new_inclusive"}
BorrowNext ==
    \/ /\ ty \in IntTypes /\ pc = "idle"
       /\ \E c \in Constructors, bl \in PassingModes, bh \in PassingModes :
              \E l \in Values(ty), h \in Values(ty) :
                  ConstructBorrowed(c, bl, bh, l, h)
    \/ /\ ty = "Duration" /\ pc = "idle"
       /\ \E c \in Constructors, bl \in PassingModes, bh \in PassingModes :
              \E l \in LowDurations, h \in Durations :
                  ConstructBorrowed(c, bl, bh, l, h)
    \/ /\ ty \in FloatTypes /\ pc = "idle"
       /\ \E c \in Constructors, bl \in PassingModes, bh \in PassingModes :
              \E l \in Floats(ty), h \in Floats(ty) :
                  ConstructBorrowed(c, bl, bh, l, h)

BorrowSpec == FullInit /\ [][BorrowNext]_vars

\* ======================================================= properties
\* The number of nanoseconds of a Duration, as a mathematical integer.
Nanos(d) == d.secs * NANOS_PER_SEC + d.nanos

\* The bit pattern u of the width of t read as a value of t.
Reinterpret(u, t) ==
    IF IsSigned(t) /\ u >= 2^(Bits(t) - 1) THEN u - 2^Bits(t) ELSE u

\* Raw draws the stored sampler s accepts and maps to the value x.
DrawsTo(t, s, x) ==
    {d \in SampleDraws(t, s) : SampleAccepts(t, s, d) /\ SampleValue(t, s, d) = x}

\* Raw draws sample_single(l, h) accepts and maps to the value x.
SingleDrawsTo(t, l, h, x) ==
    {d \in 0..LargeMax(t) : SingleAccepts(t, l, h, d) /\ SingleValue(t, l, h, d) = x}

\* Raw draws rejected by the stored sampler s / by sample_single(l, h).
Rejected(t, s) == {d \in SampleDraws(t, s) : ~SampleAccepts(t, s, d)}
SingleRejected(t, l, h) == {d \in 0..LargeMax(t) : ~SingleAccepts(t, l, h, d)}

\* The number of values of the declared range of the stored sampler.
DeclaredCount == IF ctor = "new" THEN high - low ELSE high - low + 1

\* C1: every value returned by sample on a stored integer sampler lies in
\* the declared range: [low, high) after new, [low, high] after
\* new_inclusive, for every type, pair of bounds and raw draw.
C1_SampleInRange ==
    (ty \in IntTypes /\ pc = "done") =>
        /\ Cardinality(ret) = 1
        /\ \A r \in ret :
              /\ low <= r
              /\ (ctor = "new") => (r < high)
              /\ (ctor = "new_inclusive") => (r <= high)

\* A signed sampler over [MIN, MAX) returned MAX - 1 after one rejection.
C1_Witness ==
    /\ ty \in IntTypes /\ IsSigned(ty)
    /\ pc = "done" /\ ctor = "new"
    /\ low = TyMin(ty) /\ high = TyMax(ty) /\ low < 0
    /\ ret = {high - 1}
    /\ draws = 2

\* C2: construction panics exactly when the range is invalid: new iff
\* low >= high, new_inclusive iff low > high, for the integer types and for
\* Duration; a panicking construction leaves no sampler.
C2_FailsIffInvalid ==
    /\ (ty \in IntTypes /\ ctor = "new") =>
           ((pc = "panicked") <=> (low >= high))
    /\ (ty \in IntTypes /\ ctor = "new_inclusive") =>
           ((pc = "panicked") <=> (low > high))
    /\ (ty = "Duration" /\ ctor = "new") =>
           ((pc = "panicked") <=> (Nanos(low) >= Nanos(high)))
    /\ (ty = "Duration" /\ ctor = "new_inclusive") =>
           ((pc = "panicked") <=> (Nanos(low) > Nanos(high)))
    /\ (pc = "panicked") => (sampler = NoSampler /\ ret = NoValue)
    /\ (ctor \in {"new", "new_inclusive"} /\ pc # "panicked") =>
           (sampler # NoSampler)

\* new(10, 10) panicked.
C2_Witness ==
    /\ ty = "u64" /\ ctor = "new" /\ low = 10 /\ high = 10
    /\ pc = "panicked"

\* C3: for the types whose raw draw has the width of the type, a sampler
\* stored by new_inclusive with range > 0 is unbiased: every value low + k,
\* k in 0..range-1, is the image of the same number of accepted raw draws.
C3_SameWidthUnbiased ==
    (/\ ty \in IntTypes /\ Bits(ty) = LargeBits(ty)
     /\ pc = "ready" /\ ctor = "new_inclusive"
     /\ SampleRange(ty, sampler) > 0) =>
        /\ Cardinality(DrawsTo(ty, sampler, low)) > 0
        /\ \A k \in 0..(high - low) :
              Cardinality(DrawsTo(ty, sampler, low + k))
                  = Cardinality(DrawsTo(ty, sampler, low))

\* A stored sampler over three values, which rejects some raw draw.
C3_Witness ==
    /\ ty = "u32" /\ pc = "ready" /\ ctor = "new_inclusive"
    /\ low = 1 /\ high = 3
    /\ Rejected(ty, sampler) # {}

\* C4: for the narrow types (raw draw wider than the type) a stored
\* sampler with range > 0 is unbiased: every value low + k, k in
\* 0..range-1, is the image of the same number of accepted raw draws.
C4_NarrowUnbiased ==
    (/\ ty \in IntTypes /\ Bits(ty) < LargeBits(ty)
     /\ pc = "ready"
     /\ SampleRange(ty, sampler) > 0) =>
        \A k \in 0..(DeclaredCount - 1) :
            Cardinality(DrawsTo(ty, sampler, low + k))
                = Cardinality(DrawsTo(ty, sampler, low))

\* C5: for the types of 32 bits and wider, sample_single(low, high) is
\* unbiased: every value low + k, k in 0..range-1, is the image of the same
\* number of accepted raw draws.
C5_SingleWideUnbiased ==
    (/\ ty \in IntTypes /\ ~(UnsignedMax(ty) <= U16Max)
     /\ pc = "single_loop" /\ draws = 0) =>
        \A k \in 0..(high - low - 1) :
            Cardinality(SingleDrawsTo(ty, low, high, low + k))
                = Cardinality(SingleDrawsTo(ty, low, high, low))

\* C6: new_inclusive(MIN, MAX) stores range == 0 and zone == unsigned MAX;
\* sample then never rejects, consumes exactly one raw draw and returns its
\* bit pattern read as the target type; every value of the type is the
\* image of exactly one raw draw.
C6_FullRange ==
    (/\ ty \in IntTypes /\ ctor = "new_inclusive"
     /\ low = TyMin(ty) /\ high = TyMax(ty)) =>
        /\ pc \in {"ready", "done"}
        /\ AsUnsigned(sampler.range, Bits(ty)) = 0
        /\ AsUnsigned(sampler.zone, Bits(ty)) = UnsignedMax(ty)
        /\ (pc = "done") => (draws = 1 /\ ret = {Reinterpret(v, ty)})
        /\ (pc = "ready") =>
              \A x \in Values(ty) :
                  Cardinality(DrawsTo(ty, sampler, x)) = 1

\* A full-range signed sampler returned -1 from the all-ones draw.
C6_Witness ==
    /\ ty = "i16" /\ ctor = "new_inclusive"
    /\ low = TyMin(ty) /\ high = TyMax(ty)
    /\ pc = "done" /\ v = UnsignedMax(ty) /\ ret = {0 - 1}

\* C7: every value returned by sample_single(low, high) lies in
\* [low, high), for every integer type, on both branches of the zone.
C7_SingleInRange ==
    (ty \in IntTypes /\ pc = "single_done") =>
        /\ Cardinality(ret) = 1
        /\ \A r \in ret : low <= r /\ r < high

\* sample_single(MIN, MAX) of a signed type on the approximate-zone branch
\* returned MAX - 1.
C7_Witness ==
    /\ ty = "i32" /\ pc = "single_done"
    /\ low = TyMin(ty) /\ high = TyMax(ty)
    /\ ret = {high - 1} /\ draws = 1

\* C8: every integer rejection loop can succeed: the raw draw 0 is
\* accepted and fewer than half of the raw draws are rejected, for every
\* stored sampler with range > 0 and every sample_single(low, high).
C8_Progress ==
    /\ (/\ ty \in IntTypes /\ pc = "ready"
        /\ SampleRange(ty, sampler) > 0) =>
           /\ SampleAccepts(ty, sampler, 0)
           /\ 2 * Cardinality(Rejected(ty, sampler)) < 2^LargeBits(ty)
    /\ (ty \in IntTypes /\ pc = "single_loop" /\ draws = 0) =>
           /\ SingleAccepts(ty, low, high, 0)
           /\ 2 * Cardinality(SingleRejected(ty, low, high))
                  < 2^LargeBits(ty)

\* sample_single over nine values of a 64-bit type has rejected a draw.
C8_Witness ==
    /\ ty = "u64" /\ pc = "single_loop" /\ draws = 1
    /\ low = 0 /\ high = 9

\* C9: every value returned by a Duration sampler lies in the declared
\* range ([low, high) after new, [low, high] after new_inclusive) in both
\* modes, and `offset + d` does not overflow.
C9_DurationInRange ==
    (ty = "Duration" /\ pc = "done") =>
        /\ Cardinality(ret) = 1
        /\ \A r \in ret :
              /\ r # Panic
              /\ r \in Durations
              /\ Nanos(low) <= Nanos(r)
              /\ (ctor = "new") => (Nanos(r) < Nanos(high))
              /\ (ctor = "new_inclusive") => (Nanos(r) <= Nanos(high))

\* A Large sampler built by new with a non-zero low returned high - 1ns.
C9_Witness ==
    /\ ty = "Duration" /\ pc = "done" /\ ctor = "new"
    /\ sampler.mode.kind = "Large"
    /\ Nanos(low) > 0
    /\ high = [secs |-> U64Max, nanos |-> NANOS_PER_SEC - 1]
    /\ \E r \in ret : r # Panic /\ Nanos(r) = Nanos(high) - 1

\* C10: in Large mode the drawn pair (secs in [0, size.secs], nanos in
\* [0, NANOS_PER_SEC)) is accepted exactly when it is <= size, and every
\* span d <= size is the image of exactly one accepted pair.
C10_LargeExact ==
    (/\ ty = "Duration" /\ pc \in {"ready", "loop", "done"}
     /\ sampler.mode.kind = "Large") =>
        LET size == sampler.mode.size
            accepted == {p \in InnerValues(sampler) \X NanoValues(sampler) :
                            DurationAccepts(sampler, p[1], p[2])}
            image == {DurationDraw(sampler, p[1], p[2]) : p \in accepted}
        IN  /\ (pc = "done") =>
                  (v[1] * NANOS_PER_SEC + v[2] <= Nanos(size))
            /\ (pc = "loop") =>
                  (v[1] * NANOS_PER_SEC + v[2] > Nanos(size))
            /\ (pc = "ready") =>
                  /\ InnerValues(sampler) = 0..size.secs
                  /\ NanoValues(sampler) = 0..(NANOS_PER_SEC - 1)
                  /\ image = {d \in Durations : Nanos(d) <= Nanos(size)}
                  /\ Cardinality(image) = Cardinality(accepted)

\* A Large sampler rejected the pair (size.secs, nanos > size.nanos).
C10_Witness ==
    /\ ty = "Duration" /\ pc = "loop"
    /\ sampler.mode.kind = "Large"
    /\ v[1] = sampler.mode.size.secs
    /\ v[2] > sampler.mode.size.nanos

\* The Duration of n nanoseconds.
FromNanos(n) == [secs |-> n \div NANOS_PER_SEC, nanos |-> n % NANOS_PER_SEC]

\* The span [0, SpanNanos] the stored Duration sampler covers: high - low
\* after new_inclusive, high - low - 1ns after new.
SpanNanos ==
    IF ctor = "new" THEN Nanos(high) - Nanos(low) - 1
    ELSE Nanos(high) - Nanos(low)

\* C11: a Duration construction with a valid range never fails, whatever
\* the nanosecond total of the span: it stores offset = low and the Small
\* mode (one u64 sampler over [0, total]) exactly when the total fits in 64
\* bits, the Large mode (the span and a u64 sampler over [0, span.secs])
\* exactly when it does not; the mode is one of the two.
C11_ModeSelection ==
    (/\ ty = "Duration" /\ ctor \in {"new", "new_inclusive"}
     /\ SpanNanos >= 0) =>
        /\ pc # "panicked"
        /\ sampler.offset = low
        /\ sampler.mode.kind \in {"Small", "Large"}
        /\ (sampler.mode.kind = "Small") <=> (SpanNanos <= U64Max)
        /\ (sampler.mode.kind = "Small") =>
              /\ DOMAIN sampler.mode = {"kind", "nanos"}
              /\ sampler.mode.nanos
                    = UniformInt_new_inclusive("u64", 0, SpanNanos)
        /\ (sampler.mode.kind = "Large") =>
              /\ DOMAIN sampler.mode = {"kind", "size", "secs"}
              /\ sampler.mode.size = FromNanos(SpanNanos)
              /\ sampler.mode.secs
                    = UniformInt_new_inclusive("u64", 0,
                                               SpanNanos \div NANOS_PER_SEC)

\* new_inclusive stored the Large mode for a span whose whole seconds fit
\* in 64 bits as nanoseconds but whose total does not.
C11_Witness ==
    /\ ty = "Duration" /\ ctor = "new_inclusive" /\ pc = "ready"
    /\ sampler.mode.kind = "Large"
    /\ sampler.mode.size.secs * NANOS_PER_SEC <= U64Max
    /\ sampler.offset = low /\ Nanos(low) > 0

\* C14: an integer sampler built by new_inclusive(low, low) stores range 1
\* and zone = unsigned MAX; every raw draw is accepted (no call ever loops),
\* its high word is 0 and every sample call returns exactly low.
C14_SingleValueRange ==
    (ty \in IntTypes /\ ctor = "new_inclusive" /\ low = high) =>
        /\ pc \in {"ready", "done"}
        /\ SampleRange(ty, sampler) = 1
        /\ AsUnsigned(sampler.zone, Bits(ty)) = UnsignedMax(ty)
        /\ (pc = "ready") =>
              \A d \in 0..LargeMax(ty) :
                  /\ d \in SampleDraws(ty, sampler)
                  /\ SampleAccepts(ty, sampler, d)
                  /\ wmul(d, SampleRange(ty, sampler), ty).hi = 0
                  /\ SampleValue(ty, sampler, d) = low
        /\ (pc = "done") => (ret = {low} /\ draws = 1)

\* new_inclusive(MIN, MIN) of a narrow signed type returned MIN from the
\* all-ones raw draw.
C14_Witness ==
    /\ ty = "i16" /\ ctor = "new_inclusive"
    /\ low = TyMin(ty) /\ high = low
    /\ pc = "done" /\ v = LargeMax(ty) /\ ret = {low}

\* The state the constructor named by ctor stores for the bounds low, high.
Constructed == ConstructedBy(ty, ctor, low, high)

\* The value a sample call returns when its last raw draw (integers) or
\* pair of inner values (Duration) is w, for the stored state s.
ResultOf(s, w) ==
    IF ty = "Duration"
    THEN DurationValue(s, w[1], IF Len(w) = 2 THEN w[2] ELSE 0)
    ELSE IF ty \in FloatTypes THEN FloatSampleValue(ty, s, w)
    ELSE SampleValue(ty, s, w)

\* C16: a stored sampler is immutable: the state a constructor stores is the
\* one it computed from the bounds, and no step taken afterwards (a rejected
\* draw, an accepted draw, the caller taking the value, a further call)
\* changes the stored state or the bounds; the value a call returns is
\* determined by the stored state and the call's last draw.  This holds for
\* the integer, float and Duration states alike.
C16_Immutable ==
    [][/\ (pc = "idle" /\ pc' = "ready") =>
             (sampler' = ConstructedBy(ty', ctor', low', high'))
       /\ (pc \in {"ready", "loop", "done"}) =>
             /\ sampler' = sampler
             /\ <<ty, ctor, low, high>>' = <<ty, ctor, low, high>>
             /\ pc' \in {"ready", "loop", "done"}
             /\ (pc' = "done") => (ret' = {ResultOf(sampler, v')})]_vars

\* A sample call on an unchanged sampler has returned a value other than
\* low after a rejected draw.
C16_Witness ==
    /\ ty \in IntTypes /\ pc = "done" /\ draws = 2
    /\ sampler = Constructed
    /\ ret # {low}

\* C18: for every integer type and low <= high, new_inclusive stores, read
\* as unsigned numbers of the width of the type, range = (high - low + 1)
\* mod 2^bits and, when range > 0, zone = unsigned MAX - (2^bits mod range):
\* zone + 1 is a multiple of range, no larger unsigned value has that
\* property, and the top bit of zone is set.
C18_StoredState ==
    (ty \in IntTypes /\ ctor = "new_inclusive" /\ low <= high) =>
        LET bits == Bits(ty)
            range == AsUnsigned(sampler.range, bits)
            zone == AsUnsigned(sampler.zone, bits)
        IN  /\ pc # "panicked"
            /\ sampler.low = low
            /\ sampler.range \in Values(ty) /\ sampler.zone \in Values(ty)
            /\ range = (high - low + 1) % (2^bits)
            /\ (range > 0) =>
                  /\ zone = UnsignedMax(ty) - ((2^bits) % range)
                  /\ (zone + 1) % range = 0
                  /\ \A z \in (zone + 1)..UnsignedMax(ty) :
                        (z + 1) % range # 0
                  /\ zone >= 2^(bits - 1)

\* A signed sampler over five values stores a zone below the unsigned
\* maximum.
C18_Witness ==
    /\ ty = "i32" /\ ctor = "new_inclusive" /\ pc = "ready"
    /\ low < 0 /\ high - low + 1 = 5
    /\ AsUnsigned(sampler.zone, Bits(ty)) < UnsignedMax(ty)

\* C19: for the 8- and 16-bit types and every range in 1..2^bits-1, the zone
\* sample uses (the stored narrow zone sign-extended to the width of the raw
\* draw) is the correct zone of that width: the largest value of the wide
\* type whose successor is a multiple of range.
C19_SignExtendedZone ==
    (/\ ty \in IntTypes /\ UnsignedMax(ty) <= U16Max
     /\ pc = "ready"
     /\ SampleRange(ty, sampler) > 0) =>
        /\ SampleZone(ty, sampler)
              = LargeMax(ty) - ((2^LargeBits(ty)) % SampleRange(ty, sampler))
        /\ (SampleZone(ty, sampler) + 1) % SampleRange(ty, sampler) = 0

\* C20: for the types of 32 bits and wider and every low < high, every raw
\* draw sample_single(low, high) accepts is also accepted by the sampler
\* stored by new(low, high).
C20_SingleZoneConservative ==
    (/\ ty \in IntTypes /\ ~(UnsignedMax(ty) <= U16Max)
     /\ pc = "single_loop" /\ draws = 0
     /\ UniformInt_new(ty, low, high) # Panic) =>
        \A d \in 0..LargeMax(ty) :
            SingleAccepts(ty, low, high, d) =>
                SampleAccepts(ty, UniformInt_new(ty, low, high), d)

\* Some bound is an infinity or a NaN.
NonFiniteBounds == ~(is_finite(low) /\ is_finite(high))

\* The shifted form of the all-ones raw draw.
MaxShifted(t) == shifted(t, 2^DrawBits(t) - 1)

\* C12: for f32 and f64 and every valid pair of finite bounds, construction
\* and sample_single do not fail, and every value returned is a finite float
\* in the declared range: [low, high) for new(low, high).sample and for
\* sample_single(low, high), [low, high] for new_inclusive(low, high).sample,
\* for every raw draw.
C12_FloatInRange ==
    /\ (/\ ty \in FloatTypes /\ ~NonFiniteBounds
        /\ \/ ctor \in {"new", "sample_single"} /\ all_lt(ty, low, high)
           \/ ctor = "new_inclusive" /\ all_le(ty, low, high)) =>
           pc # "panicked"
    /\ (ty \in FloatTypes /\ pc \in {"done", "single_done"}) =>
           /\ Cardinality(ret) = 1
           /\ \A r \in ret :
                 /\ is_finite(r)
                 /\ all_le(ty, low, r)
                 /\ (ctor \in {"new", "sample_single"}) => all_lt(ty, r, high)
                 /\ (ctor = "new_inclusive") => all_le(ty, r, high)

\* sample_single(-MAX, MAX), whose high - low overflows, has returned a
\* value from the all-ones raw draw after its scale was brought back to a
\* finite value.
C12_Witness ==
    /\ ty = "f32" /\ ctor = "sample_single" /\ pc = "single_done"
    /\ low = Fin(0 - MaxFinite(ty)) /\ high = Fin(MaxFinite(ty))
    /\ draws = 2 /\ v = MaxShifted(ty)
    /\ scale = Fin(MaxFinite(ty))

\* C13: when low or high is a NaN or an infinity, new and new_inclusive
\* fail at construction, and sample_single fails no later than in its first
\* iteration; no value is ever returned.
C13_NonFiniteFails ==
    (ty \in FloatTypes /\ ctor # "none" /\ NonFiniteBounds) =>
        /\ ret = NoValue
        /\ sampler = NoSampler
        /\ (ctor \in {"new", "new_inclusive"}) => (pc = "panicked")
        /\ (ctor = "sample_single") =>
              \/ pc = "panicked"
              \/ pc = "single_loop" /\ draws = 0

\* sample_single(finite, +infinity) passed its first assert and failed on
\* the finiteness assert of its first iteration.
C13_Witness ==
    /\ ty = "f64" /\ ctor = "sample_single" /\ pc = "panicked"
    /\ is_finite(low) /\ high = PosInf
    /\ draws = 1

\* C15: a float sampler fed the all-zero raw draw returns exactly low,
\* whether built by new or new_inclusive or used through sample_single; and
\* a sampler built by new_inclusive(low, low) returns low for every raw
\* draw.
C15_MinDrawIsLow ==
    /\ (/\ ty \in FloatTypes /\ pc \in {"done", "single_done"}
        /\ v = shifted(ty, 0)) =>
           (ret = {low})
    /\ (/\ ty \in FloatTypes /\ ctor = "new_inclusive" /\ low = high
        /\ is_finite(low)) =>
           /\ pc \in {"ready", "done"}
           /\ (pc = "done") => (ret = {low})
           /\ (pc = "ready") =>
                 \A k \in ShiftedDraws(ty) :
                     FloatSampleValue(ty, sampler, k) = low

\* new_inclusive(MAX, MAX) returned MAX from the all-ones raw draw.
C15_Witness ==
    /\ ty = "f32" /\ ctor = "new_inclusive" /\ pc = "done"
    /\ low = Fin(MaxFinite(ty)) /\ high = low
    /\ v = MaxShifted(ty) /\ ret = {low}

C21_SingleNarrowExact ==
    (/\ ty \in IntTypes /\ UnsignedMax(ty) <= U16Max
     /\ pc = "single_loop" /\ draws = 0) =>
        /\ SingleRange(ty, low, high) = high - low
        /\ SingleZone(ty, low, high)
               = LargeMax(ty) - ((2^LargeBits(ty)) % (high - low))
        /\ Cardinality(SingleDrawsTo(ty, low, high, low)) > 0
        /\ \A k \in 0..(high - low - 1) :
              Cardinality(SingleDrawsTo(ty, low, high, low + k))
                  = Cardinality(SingleDrawsTo(ty, low, high, low))

\* sample_single over the whole of a signed 16-bit type but its maximum (a
\* range that does not divide the number of raw draws) rejects some draw.
C21_Witness ==
    /\ ty = "i16" /\ pc = "single_loop" /\ draws = 0
    /\ low = TyMin(ty) /\ high = TyMax(ty)
    /\ (2^LargeBits(ty)) % (high - low) # 0
    /\ SingleRejected(ty, low, high) # {}

\* C22: for every low < high of an integer type, new(low, high) does not fail
\* (high - 1 does not underflow) and stores exactly the state of
\* new_inclusive(low, high - 1): stored low = low and stored range (read as
\* unsigned) = high - low.
C22_HalfOpenIsInclusivePred ==
    (ty \in IntTypes /\ ctor = "new" /\ low < high) =>
        /\ pc # "panicked"
        /\ high - 1 >= TyMin(ty)
        /\ sampler = UniformInt_new_inclusive(ty, low, high - 1)
        /\ sampler.low = low
        /\ SampleRange(ty, sampler) = high - low

\* Uniform::from(2..7) on a 32-bit type stores low 2 and range 5, the state of
\* Uniform::from(2..=6).
C22_Witness ==
    /\ ty = "u32" /\ ctor = "new" /\ pc = "ready"
    /\ low = 2 /\ high = 7
    /\ sampler.low = 2 /\ sampler.range = 5
    /\ sampler = UniformInt_new_inclusive(ty, 2, 6)

\* C23: integer sampling consumes raw draws one at a time and returns on the
\* first accepted one.  Every step of sample (and of the loop of
\* sample_single) consumes exactly one draw v; if the low word of v * range is
\* <= zone the call returns low wrapping-plus the high word of v * range, a
\* function of this draw alone, and otherwise it returns nothing and draws
\* again; once a value is returned no further draw is consumed by the call;
\* with range = 0 (the full range) the first draw is returned.
C23_FirstAccepted ==
    [][(ty \in IntTypes) =>
        /\ (pc \in {"ready", "loop"}) =>
              /\ draws' = draws + 1
              /\ (pc = "ready") => (draws = 0)
              /\ IF SampleRange(ty, sampler) = 0
                 THEN pc' = "done" /\ draws' = 1 /\ ret' # NoValue
                 ELSE LET m == wmul(v', SampleRange(ty, sampler), ty)
                      IN  IF m.lo <= SampleZone(ty, sampler)
                          THEN /\ pc' = "done"
                               /\ ret' = {wrapping_add(ty, sampler.low,
                                                       Cast(m.hi, ty))}
                          ELSE pc' = "loop" /\ ret' = NoValue
        /\ (pc = "single_loop") =>
              /\ draws' = draws + 1
              /\ LET m == wmul(v', SingleRange(ty, low, high), ty)
                 IN  IF m.lo <= SingleZone(ty, low, high)
                     THEN /\ pc' = "single_done"
                          /\ ret' = {wrapping_add(ty, low, Cast(m.hi, ty))}
                     ELSE pc' = "single_loop" /\ ret' = NoValue
        /\ (pc \in {"done", "single_done"}) =>
              (pc' = "ready" /\ draws' = 0)]_vars

\* A stored 16-bit sampler rejected its first raw draw and returned the value
\* of the second, which is not the value the rejected draw maps to.
C23_Witness ==
    /\ ty = "u16" /\ pc = "done" /\ draws = 2
    /\ SampleRange(ty, sampler) > 0
    /\ ret = {SampleValue(ty, sampler, v)}
    /\ \E d \in Rejected(ty, sampler) : ret # {SampleValue(ty, sampler, d)}

\* C24: the Large-mode rejection loop of the Duration sampler can always
\* succeed.  For every Large state, over all pairs (secs, nanos) the inner
\* samplers can return: a pair is rejected only when secs = size.secs and
\* nanos > size.subsec_nanos, the pair (0, 0) is accepted, and the rejected
\* pairs are fewer than 1/(size.secs + 1) of all pairs; a loop that has
\* rejected a pair rejected one of that form and can still draw (0, 0).
C24_LargeProgress ==
    (/\ ty = "Duration" /\ pc \in {"ready", "loop"}
     /\ sampler.mode.kind = "Large") =>
        LET size == sampler.mode.size
            pairs == InnerValues(sampler) \X NanoValues(sampler)
            rejected == {p \in pairs : ~DurationAccepts(sampler, p[1], p[2])}
        IN  /\ \A p \in rejected : p[1] = size.secs /\ p[2] > size.nanos
            /\ <<0, 0>> \in pairs \ rejected
            /\ Cardinality(rejected) * (size.secs + 1) < Cardinality(pairs)
            /\ (pc = "loop") => (<<v[1], v[2]>> \in rejected)

\* A Large sampler whose span has no sub-second part (the most rejected
\* pairs) returned a value after rejecting a pair.
C24_Witness ==
    /\ ty = "Duration" /\ pc = "done" /\ draws = 2
    /\ sampler.mode.kind = "Large"
    /\ sampler.mode.size.nanos = 0
    /\ DurationAccepts(sampler, v[1], v[2])

\* C25: in Small mode the sampled nanosecond count n, any value of
\* [0, total_nanos], is converted to Duration(n / NANOS_PER_SEC,
\* n % NANOS_PER_SEC): the sub-second part is < NANOS_PER_SEC and fits in 32
\* bits, the span's nanosecond count is exactly n, distinct counts give
\* distinct spans, and every span is <= size; the returned value is the
\* offset plus that span.
C25_SmallConversion ==
    (/\ ty = "Duration" /\ pc \in {"ready", "done"}
     /\ sampler.mode.kind = "Small") =>
        LET counts == InnerValues(sampler)
            span(n) == DurationDraw(sampler, n, 0)
        IN  /\ (pc = "ready") =>
                  /\ counts = 0..SpanNanos
                  /\ \A n \in counts :
                        /\ n % NANOS_PER_SEC <= UnsignedMax("u32")
                        /\ span(n) \in Durations
                        /\ span(n).secs = n \div NANOS_PER_SEC
                        /\ span(n).nanos = n % NANOS_PER_SEC
                        /\ Nanos(span(n)) = n
                        /\ Nanos(span(n)) <= SpanNanos
                  /\ \A n \in counts, m \in counts :
                        (span(n) = span(m)) => (n = m)
            /\ (pc = "done") =>
                  /\ v[1] \in counts
                  /\ ret = {DurAdd(sampler.offset, span(v[1]))}
                  /\ \A r \in ret : Nanos(r) = Nanos(low) + v[1]

\* A Small sampler with a non-zero low returned low plus the largest count,
\* which has whole seconds and a sub-second part.
C25_Witness ==
    /\ ty = "Duration" /\ pc = "done"
    /\ sampler.mode.kind = "Small"
    /\ Nanos(low) > 0
    /\ v[1] = SpanNanos
    /\ v[1] > NANOS_PER_SEC /\ v[1] % NANOS_PER_SEC # 0
    /\ ret = {high}

\* C26: the stored and the one-shot integer paths agree on the value of every
\* raw draw both accept: for every integer type, every low < high and every
\* raw draw v accepted by new(low, high).sample and by
\* sample_single(low, high), both return low + floor(v * (high - low) /
\* 2^drawbits); a value returned by one path is the value the other gives to
\* the same draw whenever the other accepts it.
C26_PathsAgree ==
    /\ (ty \in IntTypes /\ ctor = "new" /\ pc = "ready") =>
           \A d \in 0..LargeMax(ty) :
               (SampleAccepts(ty, sampler, d)
                    /\ SingleAccepts(ty, low, high, d)) =>
                   /\ SampleValue(ty, sampler, d)
                          = SingleValue(ty, low, high, d)
                   /\ SampleValue(ty, sampler, d)
                          = low + ((d * (high - low)) \div 2^LargeBits(ty))
    /\ (/\ ty \in IntTypes /\ ctor = "new" /\ pc = "done"
        /\ SingleAccepts(ty, low, high, v)) =>
           (ret = {SingleValue(ty, low, high, v)})
    /\ (/\ ty \in IntTypes /\ pc = "single_done"
        /\ SampleAccepts(ty, UniformInt_new(ty, low, high), v)) =>
           (ret = {SampleValue(ty, UniformInt_new(ty, low, high), v)})

\* sample_single on a signed 64-bit type with a negative low returned the
\* value of a draw the stored sampler accepts too, although the two paths do
\* not reject the same draws for these bounds.
C26_Witness ==
    /\ ty = "i64" /\ pc = "single_done"
    /\ low < 0 /\ ret # {low}
    /\ SampleAccepts(ty, UniformInt_new(ty, low, high), v)
    /\ Rejected(ty, UniformInt_new(ty, low, high))
           # SingleRejected(ty, low, high)

====
